---- MODULE Spec2Model ----
(***************************************************************************)
(* Model of treefmt's formatting engine, src/src/engine.rs (run_treefmt):  *)
(* path resolution, config and cache loading, the tree walk, the cache     *)
(* filter, the parallel formatter batches, the cache update and the        *)
(* summary.  The cache manifest (crate::eval_cache), expand_path and the   *)
(* formatter's pattern test live outside src/ and follow spec.md.          *)
(***************************************************************************)
EXTENDS Integers, Sequences, FiniteSets, TLC

\* ---------------------------------------------------------------- bounds
MaxTime == 2        \* largest mtime a file can reach

\* ------------------------------------------------------------ file system
\* Paths are sequences of components; the tree is
\*   /h/r      the project root, with files /h/r/a and /h/r/b
\*   /h/x      a file next to the project root (outside of it)
tree_root == <<"h", "r">>
parent_dir == <<"h">>
file_a == <<"h", "r", "a">>
file_b == <<"h", "r", "b">>
file_x == <<"h", "x">>
Files == {file_a, file_b, file_x}
RootFiles == {file_a, file_b}

\* A user-supplied path: absolute, or relative to the working directory.
target_root == [abs |-> TRUE, comps |-> tree_root]
target_a == [abs |-> FALSE, comps |-> <<"a">>]
target_parent == [abs |-> TRUE, comps |-> parent_dir]

\* The target paths and working directory a run is given: no path; a
\* directory above the root; a relative path from outside the root; the
\* root; the root and a file of it; a directory above the root and the root;
\* a file of the root.
Invocations ==
  { [targets |-> <<>>, work_dir |-> tree_root],
    [targets |-> <<target_parent>>, work_dir |-> tree_root],
    [targets |-> <<target_a>>, work_dir |-> parent_dir],
    [targets |-> <<target_root>>, work_dir |-> tree_root],
    [targets |-> <<target_root, target_a>>, work_dir |-> tree_root],
    [targets |-> <<target_parent, target_root>>, work_dir |-> tree_root],
    [targets |-> <<target_a>>, work_dir |-> tree_root] }

\* Path::starts_with: component-wise prefix.
starts_with(p, q) == Len(q) <= Len(p) /\ SubSeq(p, 1, Len(q)) = q

\* expand_path: an absolute path is left alone, a relative one is joined to
\* the reference directory.
expand_path(path, dir) == IF path.abs THEN path.comps ELSE dir \o path.comps

\* A fold that keeps every path, inside the project root or not.
RECURSIVE ResolvePathsUnchecked(_, _)
ResolvePathsUnchecked(targets, dir) ==
  IF targets = <<>> THEN <<>>
  ELSE <<expand_path(Head(targets), dir)>> \o ResolvePathsUnchecked(Tail(targets), dir)

\* engine.rs 46-57, the paths kept by the fold.
RECURSIVE ResolvePaths(_, _)
ResolvePaths(targets, dir) ==
  IF targets = <<>> THEN <<>>
  ELSE LET abs_path == expand_path(Head(targets), dir)
           rest == ResolvePaths(Tail(targets), dir)
       IN  IF starts_with(abs_path, tree_root) THEN <<abs_path>> \o rest ELSE rest

\* engine.rs 50-55, the targets the fold warns about.
IgnoredTargets(targets, dir) ==
  { targets[i] : i \in { j \in 1..Len(targets) :
                           ~starts_with(expand_path(targets[j], dir), tree_root) } }

\* ------------------------------------------------------------ configuration
FormatterNames == {"F1", "F2"}
\* An unparseable treefmt.toml; a parsed one carries its formatter sections.
Malformed == [ok |-> FALSE, formatter |-> <<>>]

\* A formatter section of treefmt.toml: the command, the set of paths its
\* patterns match, and whether Formatter::from_config accepts it.
Section(cmd, pat, valid) == [cmd |-> cmd, pat |-> pat, valid |-> valid]

\* The configurations: two formatters that both match /h/r/a; the same with
\* another command for the first; the first with a wider pattern set and the
\* second failing to build; two formatters with a file each; an unparseable
\* file.
Configs ==
  { Malformed,
    [ok |-> TRUE, formatter |-> [F1 |-> Section(1, {file_a}, TRUE),
                                 F2 |-> Section(1, {file_a}, TRUE)]],
    [ok |-> TRUE, formatter |-> [F1 |-> Section(2, {file_a}, TRUE),
                                 F2 |-> Section(1, {file_a}, TRUE)]],
    [ok |-> TRUE, formatter |-> [F1 |-> Section(1, {file_a, file_b, file_x}, TRUE),
                                 F2 |-> Section(1, {file_a}, FALSE)]],
    [ok |-> TRUE, formatter |-> [F1 |-> Section(1, {file_b}, TRUE),
                                 F2 |-> Section(1, {file_a}, TRUE)]] }

\* engine.rs 71-86: the formatters that could be built from the config.
LoadFormatters(cfg) ==
  LET built == { n \in DOMAIN cfg.formatter : cfg.formatter[n].valid }
  IN  [n \in built |-> [cmd |-> cfg.formatter[n].cmd, pat |-> cfg.formatter[n].pat]]

\* Formatter::is_match
is_match(fmt, path) == path \in fmt.pat

\* ------------------------------------------------------------ cache manifest
\* A manifest maps a formatter name to the definition its entries were
\* validated against and to the mtime recorded for each path.
NoPaths == <<>>
EmptyManifest == <<>>

\* CacheManifest::update_formatters: a formatter whose configured definition
\* differs from the stored one loses its entries; every configured formatter
\* is stored with its current definition.
update_formatters(manifest, fmts) ==
  [n \in DOMAIN manifest \cup DOMAIN fmts |->
     IF n \notin DOMAIN fmts THEN manifest[n]
     ELSE IF n \in DOMAIN manifest /\ manifest[n].def = fmts[n] THEN manifest[n]
     ELSE [def |-> fmts[n], paths |-> NoPaths]]

\* A (formatter, path, mtime) is clean when the manifest holds it with an
\* identical mtime.
IsClean(manifest, n, p, mtime) ==
  /\ n \in DOMAIN manifest
  /\ p \in DOMAIN manifest[n].paths
  /\ manifest[n].paths[p] = mtime

\* CacheManifest::filter_matches: keep the stale entries only.
filter_matches(manifest, m) ==
  [n \in DOMAIN m |->
     [p \in {q \in DOMAIN m[n] : ~IsClean(manifest, n, q, m[n][q])} |-> m[n][p]]]

\* CacheManifest::add_results: the new mtimes replace the prior entries.
add_results(manifest, m) ==
  [n \in DOMAIN manifest \cup DOMAIN m |->
     IF n \notin DOMAIN m THEN manifest[n]
     ELSE LET old == IF n \in DOMAIN manifest THEN manifest[n].paths ELSE NoPaths
          IN  [def |-> IF n \in DOMAIN manifest THEN manifest[n].def ELSE [cmd |-> 0, pat |-> {}],
               paths |-> [p \in DOMAIN old \cup DOMAIN m[n] |->
                            IF p \in DOMAIN m[n] THEN m[n][p] ELSE old[p]]]]

\* Sum of the sizes of the path maps of a match set.
RECURSIVE CountPairs(_)
CountPairs(m) ==
  IF DOMAIN m = {} THEN 0
  ELSE LET n == CHOOSE k \in DOMAIN m : TRUE
       IN  Cardinality(DOMAIN m[n]) + CountPairs([k \in DOMAIN m \ {n} |-> m[k]])

\* ------------------------------------------------------------------ state
VARIABLES
  fs,               \* mtime of every file on disk
  config,           \* content of treefmt.toml
  disk_cache,       \* the persisted cache manifest
  pc,               \* "idle", "format" (the parallel phase) or "done"
  args,             \* arguments of the run
  paths,            \* the resolved target paths
  warned,           \* what the run warned about
  formatters,       \* the formatters built from the config
  cache,            \* the in-memory manifest
  match_set,        \* the walk's matches, before the cache filter
  matches,          \* the matches left by the cache filter
  traversed_files,
  matched_files,
  status,           \* per scheduled formatter: position of its batch
  new_matches,      \* results collected from the batches
  outcome,          \* what the run returned
  summary,          \* the counts the run printed
  run_start,        \* disk cache and mtimes when the run started
  written,          \* (formatter, file) rewrites of the run
  cache_writes,     \* cache writes of the run, and whether the last worked
  fmt_calls,        \* per formatter: the path lists it was started with
  last,             \* what the last run did, until something is edited
  prev              \* the same for the run before the current one, when
                    \* the current run repeats its invocation

env == <<fs, config, disk_cache>>
history == <<last, prev>>
run_inputs == <<args, paths, warned, formatters, cache, match_set, matches,
                traversed_files, matched_files, run_start>>
vars == <<fs, config, disk_cache, pc, args, paths, warned, formatters, cache,
          match_set, matches, traversed_files, matched_files, status,
          new_matches, outcome, summary, run_start, written, cache_writes,
          fmt_calls, last, prev>>

NoArgs == [targets |-> <<>>, work_dir |-> tree_root,
           clear_cache |-> FALSE, fail_on_change |-> FALSE]
NoSummary == [traversed |-> -1, matched |-> -1, filtered |-> -1, reformatted |-> -1]
NoWarnings == [ignored |-> {}, aborting |-> FALSE]
NoWrites == [count |-> 0, ok |-> FALSE]
NoRun == [kind |-> "none", targets |-> <<>>, work_dir |-> tree_root,
          failed |-> <<>>, fan_out |-> FALSE, write_ok |-> FALSE]
InitFs == [f \in Files |-> 1]

Init ==
  /\ fs = InitFs
  /\ config \in Configs
  /\ disk_cache = EmptyManifest
  /\ pc = "idle"
  /\ args = NoArgs
  /\ paths = <<>>
  /\ warned = NoWarnings
  /\ formatters = EmptyManifest
  /\ cache = EmptyManifest
  /\ match_set = EmptyManifest
  /\ matches = EmptyManifest
  /\ traversed_files = 0
  /\ matched_files = 0
  /\ status = EmptyManifest
  /\ new_matches = EmptyManifest
  /\ outcome = "none"
  /\ summary = NoSummary
  /\ run_start = [cache |-> EmptyManifest, fs |-> InitFs]
  /\ written = {}
  /\ cache_writes = NoWrites
  /\ fmt_calls = EmptyManifest
  /\ last = NoRun
  /\ prev = NoRun

\* ------------------------------------------------------------------- walk
\* The non-directory entries the walker yields for one resolved path.
FilesUnder(p) == {f \in Files : starts_with(f, p)}

\* A walk that takes a time of the metadata that edits do not change.
walk_btime(f) == InitFs[f]

\* get_meta_mtime(dir_entry.metadata()): the mtime the walk observes.
walk_mtime(f) == fs[f]

\* The formatters of fmts that match the file.
MatchersOf(fmts, f) == {n \in DOMAIN fmts : is_match(fmts[n], f)}

\* A count of the files under the resolved paths, each file once.
CountTraversedDistinct(ps) ==
  Cardinality(UNION {{f \in Files : starts_with(f, ps[i])} : i \in 1..Len(ps)})

\* engine.rs 127: one increment per entry the walker yields; the walker
\* goes through the resolved paths one after the other.
RECURSIVE CountTraversed(_)
CountTraversed(ps) ==
  IF ps = <<>> THEN 0
  ELSE Cardinality(FilesUnder(Head(ps))) + CountTraversed(Tail(ps))

\* engine.rs 134: one increment per (entry, matching formatter).
RECURSIVE CountMatched(_, _)
CountMatched(ps, fmts) ==
  IF ps = <<>> THEN 0
  ELSE Cardinality({fn \in FilesUnder(Head(ps)) \X (DOMAIN fmts) :
                       fn[2] \in MatchersOf(fmts, fn[1])})
         + CountMatched(Tail(ps), fmts)

\* A walk that gives a file to the first formatter that matches it only.
WalkMatchesFirstOnly(ps, fmts) ==
  LET walked == UNION {FilesUnder(ps[i]) : i \in 1..Len(ps)}
      first(f) == CHOOSE n \in MatchersOf(fmts, f) :
                    \A k \in MatchersOf(fmts, f) : n = "F1" \/ k # "F1"
      hit(n) == {f \in walked : is_match(fmts[n], f) /\ first(f) = n}
  IN  [n \in {k \in DOMAIN fmts : hit(k) # {}} |-> [f \in hit(n) |-> walk_mtime(f)]]

\* engine.rs 139-142: the map built by the walk.
WalkMatches(ps, fmts) ==
  LET walked == UNION {FilesUnder(ps[i]) : i \in 1..Len(ps)}
      hit(n) == {f \in walked : is_match(fmts[n], f)}
  IN  [n \in {k \in DOMAIN fmts : hit(k) # {}} |-> [f \in hit(n) |-> walk_mtime(f)]]

\* A run that always starts from an empty manifest.
LoadNothing(clear_cache) == EmptyManifest

\* engine.rs 91-96
LoadCache(clear_cache) == IF clear_cache THEN EmptyManifest ELSE disk_cache

\* A cache that is used as it was loaded.
CacheAsLoaded(clear_cache, fmts) == LoadCache(clear_cache)

\* engine.rs 91-99: the loaded cache, updated with the current formatters.
CacheForRun(clear_cache, fmts) == update_formatters(LoadCache(clear_cache), fmts)

\* A run that goes on without any path.
NeverShortCircuits(ps) == FALSE

\* engine.rs 60: the short-circuit test.
NoPathsLeft(ps) == ps = <<>>

\* ------------------------------------------------------------------ actions
\* The locals of a run that returned before loading anything.
NothingLoaded ==
  /\ formatters' = EmptyManifest
  /\ cache' = EmptyManifest
  /\ match_set' = EmptyManifest
  /\ matches' = EmptyManifest
  /\ status' = EmptyManifest
  /\ traversed_files' = 0
  /\ matched_files' = 0

\* run_treefmt up to the parallel phase (engine.rs 45-166).
StartRun(targets, work_dir, clear_cache, fail_on_change) ==
  LET ps == ResolvePaths(targets, work_dir)
      ignored == IgnoredTargets(targets, work_dir)
      fmts == LoadFormatters(config)
      loaded == CacheForRun(clear_cache, fmts)
      found == WalkMatches(ps, fmts)
      stale == filter_matches(loaded, found)
  IN
  /\ pc = "idle"
  /\ args' = [targets |-> targets, work_dir |-> work_dir,
              clear_cache |-> clear_cache, fail_on_change |-> fail_on_change]
  /\ paths' = ps
  /\ run_start' = [cache |-> disk_cache, fs |-> fs]
  /\ written' = {}
  /\ cache_writes' = NoWrites
  /\ fmt_calls' = EmptyManifest
  /\ new_matches' = EmptyManifest
  /\ summary' = NoSummary
  /\ prev' = IF last.targets = targets /\ last.work_dir = work_dir
             THEN last ELSE NoRun
  /\ UNCHANGED <<env, last>>
  /\ IF NoPathsLeft(ps) THEN
       \* engine.rs 60-63
       /\ warned' = [ignored |-> ignored, aborting |-> TRUE]
       /\ outcome' = "ok"
       /\ pc' = "done"
       /\ NothingLoaded
     ELSE IF ~config.ok THEN
       \* engine.rs 66
       /\ warned' = [ignored |-> ignored, aborting |-> FALSE]
       /\ outcome' = "config-error"
       /\ pc' = "done"
       /\ NothingLoaded
     ELSE
       /\ warned' = [ignored |-> ignored, aborting |-> FALSE]
       /\ formatters' = fmts
       /\ cache' = loaded
       /\ match_set' = found
       /\ matches' = stale
       /\ traversed_files' = CountTraversed(ps)
       /\ matched_files' = CountMatched(ps, fmts)
       /\ status' = [n \in DOMAIN stale |-> "pending"]
       /\ outcome' = "running"
       /\ pc' = "format"

\* The paths the walk matched to the formatter, clean or stale.
WalkedPaths(n) == DOMAIN match_set[n]

\* engine.rs 172: the paths of the formatter's entry of the filtered matches.
BatchPaths(n) == DOMAIN matches[n]

\* A skipped formatter that leaves no entry in the results.
SkipBatchDropsEntry(n) ==
  /\ pc = "format"
  /\ n \in DOMAIN matches /\ status[n] = "pending"
  /\ BatchPaths(n) = {}
  /\ status' = [status EXCEPT ![n] = "skipped"]
  /\ UNCHANGED <<env, pc, run_inputs, new_matches, outcome, summary, written,
                 cache_writes, fmt_calls, history>>

\* engine.rs 177-178: a formatter with nothing to format is not run.
SkipBatch(n) ==
  /\ pc = "format"
  /\ n \in DOMAIN matches /\ status[n] = "pending"
  /\ BatchPaths(n) = {}
  /\ status' = [status EXCEPT ![n] = "skipped"]
  /\ new_matches' = [k \in DOMAIN new_matches \cup {n} |->
                       IF k = n THEN matches[n] ELSE new_matches[k]]
  /\ UNCHANGED <<env, pc, run_inputs, outcome, summary, written, cache_writes,
                 fmt_calls, history>>

\* engine.rs 182: the formatter is started on its batch.
Invoke(n) ==
  /\ pc = "format"
  /\ n \in DOMAIN matches /\ status[n] = "pending"
  /\ BatchPaths(n) # {}
  /\ status' = [status EXCEPT ![n] = "running"]
  /\ fmt_calls' = [k \in DOMAIN fmt_calls \cup {n} |->
                     IF k = n
                     THEN (IF n \in DOMAIN fmt_calls THEN fmt_calls[n] ELSE <<>>)
                            \o <<BatchPaths(n)>>
                     ELSE fmt_calls[k]]
  /\ UNCHANGED <<env, pc, run_inputs, new_matches, outcome, summary, written,
                 cache_writes, history>>

\* The running formatter rewrites one file of its batch.
FmtWrite(n, p) ==
  /\ pc = "format"
  /\ n \in DOMAIN matches /\ status[n] = "running"
  /\ p \in BatchPaths(n)
  /\ <<n, p>> \notin written
  /\ fs[p] < MaxTime
  /\ fs' = [fs EXCEPT ![p] = fs[p] + 1]
  /\ written' = written \cup {<<n, p>>}
  /\ UNCHANGED <<config, disk_cache, pc, run_inputs, status, new_matches,
                 outcome, summary, cache_writes, fmt_calls, history>>

\* A batch that keeps the mtimes of the walk instead of reading them again.
RereadMtimesFromWalk(n) == matches[n]

\* engine.rs 193-198: get_path_mtime of every path of the batch.
RereadMtimes(n) == [p \in BatchPaths(n) |-> fs[p]]

\* A batch that returns the mtimes of the walk after a success too.
BatchResultFromWalk(n, ok) == matches[n]

\* A batch that reads the mtimes again after a failure too.
BatchResultAlwaysReread(n, ok) == RereadMtimes(n)

\* engine.rs 184-207: what a batch returns.
BatchResult(n, ok) == IF ok THEN RereadMtimes(n) ELSE matches[n]

\* A batch that writes the cache as soon as it has its results.
FmtFinishAndPersist(n, ok) ==
  /\ pc = "format"
  /\ n \in DOMAIN matches /\ status[n] = "running"
  /\ status' = [status EXCEPT ![n] = IF ok THEN "ok" ELSE "failed"]
  /\ new_matches' = [k \in DOMAIN new_matches \cup {n} |->
                       IF k = n THEN BatchResult(n, ok) ELSE new_matches[k]]
  /\ disk_cache' = add_results(cache, new_matches')
  /\ UNCHANGED <<fs, config, pc, run_inputs, outcome, summary, written,
                 cache_writes, fmt_calls, history>>

\* engine.rs 182-208: the formatter returns, with success or failure.
FmtFinish(n, ok) ==
  /\ pc = "format"
  /\ n \in DOMAIN matches /\ status[n] = "running"
  /\ status' = [status EXCEPT ![n] = IF ok THEN "ok" ELSE "failed"]
  /\ new_matches' = [k \in DOMAIN new_matches \cup {n} |->
                       IF k = n THEN BatchResult(n, ok) ELSE new_matches[k]]
  /\ UNCHANGED <<env, pc, run_inputs, outcome, summary, written, cache_writes,
                 fmt_calls, history>>

\* engine.rs 221-251: the (formatter, path) pairs whose mtime in the results
\* differs from the one the batch started with.
ChangedMatches(old, new) ==
  {np \in (DOMAIN new) \X Files :
     /\ np[2] \in DOMAIN new[np[1]]
     /\ old[np[1]][np[2]] # new[np[1]][np[2]]}

\* engine.rs 269-273
Outcome(reformatted_files, fail_on_change) ==
  IF reformatted_files > 0 /\ fail_on_change THEN "fail-on-change" ELSE "ok"

\* CacheManifest::write: a failed write is logged and leaves the file as it was.
Persist(manifest, write_ok) == IF write_ok THEN manifest ELSE disk_cache

\* A parallel phase that stops at the first batch that failed.
AllDoneOrOneFailed ==
  \/ \A n \in DOMAIN matches : status[n] \in {"skipped", "ok", "failed"}
  \/ \E n \in DOMAIN matches : status[n] = "failed"

\* engine.rs 169-211: collect() returns when every entry was mapped.
AllBatchesDone ==
  \A n \in DOMAIN matches : status[n] \in {"skipped", "ok", "failed"}

\* engine.rs 214-273: merge, write, diff, summary and return value.
MergeAndSummarise(write_ok) ==
  LET merged == add_results(cache, new_matches)
      reformatted_files == Cardinality(ChangedMatches(matches, new_matches))
  IN
  /\ cache' = merged
  /\ disk_cache' = Persist(merged, write_ok)
  /\ cache_writes' = [count |-> cache_writes.count + 1, ok |-> write_ok]
  /\ summary' = [traversed |-> traversed_files, matched |-> matched_files,
                 filtered |-> CountPairs(matches),
                 reformatted |-> reformatted_files]
  /\ outcome' = Outcome(reformatted_files, args.fail_on_change)
  /\ pc' = "done"
  /\ UNCHANGED <<fs, config, args, paths, warned, formatters, match_set,
                 matches, traversed_files, matched_files, status, new_matches,
                 run_start, written, fmt_calls, history>>

\* A merge that does not wait for the batches that are not done.
FinishEarly(write_ok) ==
  /\ pc = "format"
  /\ MergeAndSummarise(write_ok)

\* run_treefmt after the parallel phase (engine.rs 211-273).
Finish(write_ok) ==
  /\ pc = "format"
  /\ AllBatchesDone
  /\ MergeAndSummarise(write_ok)

\* No run is in progress: the locals and the output of the last one are gone.
Forgotten ==
  /\ args' = NoArgs
  /\ paths' = <<>>
  /\ warned' = NoWarnings
  /\ formatters' = EmptyManifest
  /\ cache' = EmptyManifest
  /\ match_set' = EmptyManifest
  /\ matches' = EmptyManifest
  /\ traversed_files' = 0
  /\ matched_files' = 0
  /\ status' = EmptyManifest
  /\ new_matches' = EmptyManifest
  /\ outcome' = "none"
  /\ summary' = NoSummary
  /\ run_start' = [cache |-> EmptyManifest, fs |-> InitFs]
  /\ written' = {}
  /\ cache_writes' = NoWrites
  /\ fmt_calls' = EmptyManifest
  /\ prev' = NoRun

\* What a run that printed its summary leaves for a run that repeats it.
RunRecord ==
  IF summary = NoSummary THEN NoRun
  ELSE [kind |-> "summary", targets |-> args.targets, work_dir |-> args.work_dir,
        failed |-> [n \in {k \in DOMAIN matches : status[k] = "failed"} |->
                      DOMAIN matches[n]],
        fan_out |-> \E n1, n2 \in DOMAIN match_set :
                      n1 # n2 /\ DOMAIN match_set[n1] \cap DOMAIN match_set[n2] # {},
        write_ok |-> cache_writes.ok]

\* The process exits (engine.rs 62, 66, 270, 273).
Return ==
  /\ pc = "done"
  /\ pc' = "idle"
  /\ last' = RunRecord
  /\ Forgotten
  /\ UNCHANGED env

\* The process is killed during the parallel phase.
Kill ==
  /\ pc = "format"
  /\ pc' = "idle"
  /\ last' = NoRun
  /\ Forgotten
  /\ UNCHANGED env

\* Between two runs somebody edits a file of the project.
Edit(f) ==
  /\ pc = "idle"
  /\ fs[f] < MaxTime
  /\ fs' = [fs EXCEPT ![f] = fs[f] + 1]
  /\ last' = NoRun
  /\ UNCHANGED <<config, disk_cache, pc, run_inputs, status, new_matches,
                 outcome, summary, written, cache_writes, fmt_calls, prev>>

\* Between two runs somebody edits treefmt.toml.
ConfigEdit(c) ==
  /\ pc = "idle"
  /\ c # config
  /\ config' = c
  /\ last' = NoRun
  /\ UNCHANGED <<fs, disk_cache, pc, run_inputs, status, new_matches,
                 outcome, summary, written, cache_writes, fmt_calls, prev>>

Next ==
  \/ \E inv \in Invocations, clear_cache \in BOOLEAN, fail_on_change \in BOOLEAN :
       StartRun(inv.targets, inv.work_dir, clear_cache, fail_on_change)
  \/ \E n \in FormatterNames : SkipBatch(n)
  \/ \E n \in FormatterNames : Invoke(n)
  \/ \E n \in FormatterNames, p \in RootFiles : FmtWrite(n, p)
  \/ \E n \in FormatterNames, ok \in BOOLEAN : FmtFinish(n, ok)
  \/ \E write_ok \in BOOLEAN : Finish(write_ok)
  \/ Return
  \/ Kill
  \/ \E f \in RootFiles : Edit(f)
  \/ \E c \in Configs : ConfigEdit(c)

Spec == Init /\ [][Next]_vars

\* ----------------------------------------------------------------- claims
\* The run is past the cache filter and repeats the run before it: same
\* target paths and working directory, same treefmt.toml, no file edited and
\* no run killed in between.
RepeatsLastRun == pc \in {"format", "done"} /\ outcome # "config-error"
                    /\ ~warned.aborting /\ prev.kind = "summary"

\* C1: when a formatter's batch failed in the previous run and nothing was
\* edited since, every path of that batch is in the formatter's batch again.
C1_FailedBatchScheduledAgain ==
  RepeatsLastRun =>
    \A n \in DOMAIN prev.failed :
      n \in DOMAIN matches /\ prev.failed[n] \subseteq DOMAIN matches[n]

\* C2 as stated: a run that repeats the run before it, with nothing edited
\* in between, leaves no (formatter, file) pair after the cache filter and
\* re-formats nothing.
C2_Idempotence ==
  RepeatsLastRun =>
    /\ CountPairs(matches) = 0
    /\ pc = "done" => summary.filtered = 0 /\ summary.reformatted = 0

\* The run before went well: no batch failed, no file it walked matched two
\* formatters, and the cache was written.
LastRunClean == prev.failed = <<>> /\ ~prev.fan_out /\ prev.write_ok

\* C2, amended: the same, provided the run before went well and the
\* repeating run does not clear the cache.
C2_IdempotenceAfterCleanRun ==
  (RepeatsLastRun /\ LastRunClean /\ ~args.clear_cache) =>
    /\ CountPairs(matches) = 0
    /\ pc = "done" => summary.filtered = 0 /\ summary.reformatted = 0

\* A repeating run with matched files, all of them filtered as clean, after
\* a run in which a formatter rewrote a file.
C2_Witness ==
  /\ RepeatsLastRun /\ LastRunClean /\ ~args.clear_cache
  /\ pc = "done"
  /\ summary.matched > 0 /\ summary.filtered = 0 /\ summary.reformatted = 0
  /\ \E f \in RootFiles : fs[f] > 1

\* The run loaded its formatters and its cache, walked and filtered.
Walked == pc \in {"format", "done"} /\ outcome # "config-error" /\ ~warned.aborting

\* The definition of formatter n did not change since its cache entries
\* were written.
DefinitionUnchanged(n) ==
  n \in DOMAIN run_start.cache /\ run_start.cache[n].def = formatters[n]

\* The cache on disk at the start of the run holds (n, p) with the mtime the
\* file had on disk during the walk.
CachedWithSameMtime(n, p) ==
  ~args.clear_cache /\ IsClean(run_start.cache, n, p, run_start.fs[p])

\* C3: a matched pair is dropped by the cache filter only if the cache holds
\* it with the mtime the file has on disk and the formatter's definition is
\* unchanged; a file whose mtime differs from the cached one is scheduled.
C3_MtimeDrivesStaleness ==
  Walked =>
    \A n \in DOMAIN match_set : \A p \in DOMAIN match_set[n] :
      p \notin DOMAIN matches[n] =>
        CachedWithSameMtime(n, p) /\ DefinitionUnchanged(n)

\* A file is cached for a formatter with another mtime than it has on disk
\* and the run schedules it, while a file with the cached mtime is dropped.
C3_Witness ==
  /\ Walked /\ ~args.clear_cache
  /\ \E n \in DOMAIN match_set : \E p \in DOMAIN match_set[n] :
       /\ DefinitionUnchanged(n)
       /\ p \in DOMAIN run_start.cache[n].paths
       /\ run_start.cache[n].paths[p] # run_start.fs[p]
       /\ p \in DOMAIN matches[n]
  /\ \E n \in DOMAIN match_set : \E p \in DOMAIN match_set[n] :
       p \notin DOMAIN matches[n]

\* C4: when the definition of a formatter differs from the one its cache
\* entries were written with, the run schedules every file of the walk the
\* formatter matches; a formatter whose definition is unchanged keeps its
\* entries, and its files with the cached mtime are not scheduled.
C4_InvalidationOnConfigChange ==
  Walked =>
    \A n \in DOMAIN match_set :
      /\ (n \in DOMAIN run_start.cache /\ ~DefinitionUnchanged(n))
           => DOMAIN matches[n] = DOMAIN match_set[n]
      /\ (DefinitionUnchanged(n) /\ ~args.clear_cache)
           => /\ pc = "format" => cache[n] = run_start.cache[n]
              /\ \A p \in DOMAIN match_set[n] :
                   CachedWithSameMtime(n, p) => p \notin DOMAIN matches[n]

\* The command of one formatter changed: its file, cached with the mtime it
\* still has, is scheduled; the other formatter's entry for the same file
\* still makes it clean.
C4_Witness ==
  /\ Walked /\ ~args.clear_cache
  /\ \E n \in DOMAIN match_set : \E p \in DOMAIN match_set[n] :
       /\ n \in DOMAIN run_start.cache /\ ~DefinitionUnchanged(n)
       /\ IsClean(run_start.cache, n, p, run_start.fs[p])
       /\ p \in DOMAIN matches[n]
  /\ \E n \in DOMAIN match_set : \E p \in DOMAIN match_set[n] :
       DefinitionUnchanged(n) /\ p \notin DOMAIN matches[n]

\* The files the walk of this run went through.
WalkedFiles == UNION {FilesUnder(paths[i]) : i \in 1..Len(paths)}

\* The manifest the cache filter of this run used.
FilterCache ==
  update_formatters(IF args.clear_cache THEN EmptyManifest ELSE run_start.cache,
                    formatters)

\* C5 as stated: a walked file that matches two formatters is in the batch
\* of both.
C5_FanOut ==
  Walked =>
    \A f \in WalkedFiles : \A n1, n2 \in MatchersOf(formatters, f) :
      n1 # n2 => f \in DOMAIN matches[n1] /\ f \in DOMAIN matches[n2]

\* C5, amended: a walked file that matches two formatters is in the
\* MatchSet under both, and it is in the batch of each of the two for which
\* the cache does not hold it as clean.
C5_FanOutOfStale ==
  Walked =>
    \A f \in WalkedFiles : \A n1, n2 \in MatchersOf(formatters, f) :
      n1 # n2 =>
        \A n \in {n1, n2} :
          /\ n \in DOMAIN match_set /\ f \in DOMAIN match_set[n]
          /\ match_set[n][f] = run_start.fs[f]
          /\ f \in DOMAIN matches[n] <=> ~IsClean(FilterCache, n, f, match_set[n][f])

\* One file is in the batch of two formatters; in another run it is in the
\* batch of one of them only.
C5_Witness ==
  /\ Walked
  /\ \E f \in WalkedFiles :
       /\ MatchersOf(formatters, f) = {"F1", "F2"}
       /\ f \in DOMAIN matches["F1"] /\ f \in DOMAIN matches["F2"]
       /\ status["F1"] = "running" /\ status["F2"] = "running"

\* The files whose mtime changed since the run started.
ChangedFiles == {f \in Files : fs[f] # run_start.fs[f]}

\* The run got to its summary.
Summarised == pc = "done" /\ summary # NoSummary

\* C6: the run returns the fail-on-change error exactly when fail_on_change
\* is set and the mtime of some file changed during the run; otherwise it
\* returns success.
C6_FailOnChangeGating ==
  Summarised =>
    /\ outcome = "fail-on-change" <=> (args.fail_on_change /\ ChangedFiles # {})
    /\ outcome \in {"ok", "fail-on-change"}

\* C7: a run that starts from an empty manifest reports as many pairs left
\* after the cache filter as matched, and as many re-formatted files as
\* files whose mtime changed; the matched count is the number of (formatter,
\* file) matches among the walked files.
C7_ChangeAccountingEmptyCache ==
  (Summarised /\ (args.clear_cache \/ run_start.cache = EmptyManifest)) =>
    /\ summary.filtered = summary.matched
    /\ summary.reformatted = Cardinality(ChangedFiles)
    /\ summary.matched = CountPairs(match_set)

\* The targets of the run that do not start with the project root once
\* made absolute, and those that do.
OutsideTargets ==
  {t \in {args.targets[i] : i \in 1..Len(args.targets)} :
     ~starts_with(expand_path(t, args.work_dir), tree_root)}
InsideTargets ==
  {t \in {args.targets[i] : i \in 1..Len(args.targets)} :
     starts_with(expand_path(t, args.work_dir), tree_root)}

\* The files the run has in its MatchSet, in a batch or in its results.
FilesOf(m) == UNION {DOMAIN m[n] : n \in DOMAIN m}
FilesInRun == FilesOf(match_set) \cup FilesOf(matches) \cup FilesOf(new_matches)

\* C8 as stated: the run warns about every target outside the project root,
\* and no file under such a target is in the MatchSet or in a batch.
C8_RootContainment ==
  pc \in {"format", "done"} =>
    \A t \in OutsideTargets :
      /\ t \in warned.ignored
      /\ \A f \in FilesInRun : ~starts_with(f, expand_path(t, args.work_dir))

\* C8, amended: the run warns about every target outside the project root,
\* and every file in the MatchSet or in a batch is under the project root
\* and under a target that starts with the project root; a file under a
\* target outside the root is there only when such a target covers it too.
C8_RootContainmentOfWalk ==
  pc \in {"format", "done"} =>
    /\ \A t \in OutsideTargets : t \in warned.ignored
    /\ \A f \in FilesInRun :
         /\ starts_with(f, tree_root)
         /\ \E t \in InsideTargets : starts_with(f, expand_path(t, args.work_dir))

\* A run with a target above the project root and the root itself: it
\* warned about the first and matched files under the second.
C8_Witness ==
  /\ pc = "format"
  /\ target_parent \in OutsideTargets /\ target_parent \in warned.ignored
  /\ FilesOf(matches) # {}
  /\ \E n \in DOMAIN formatters : file_x \in formatters[n].pat

\* C9: a run left without a target path returns success, starts no
\* formatter, changes no file and does not touch the persisted cache,
\* whatever fail_on_change and clear_cache are.
C9_EmptyTargetShortCircuit ==
  (pc \in {"format", "done"} /\ ResolvePaths(args.targets, args.work_dir) = <<>>) =>
    /\ pc = "done" /\ outcome = "ok"
    /\ warned.aborting
    /\ status = <<>> /\ new_matches = <<>>
    /\ summary = NoSummary
    /\ cache_writes.count = 0
    /\ disk_cache = run_start.cache
    /\ fs = run_start.fs

\* A run whose only target is outside the root, with fail_on_change and
\* clear_cache set, over a cache that holds entries.
C9_Witness ==
  /\ pc = "done" /\ warned.aborting /\ outcome = "ok"
  /\ args.targets # <<>> /\ args.fail_on_change /\ args.clear_cache
  /\ disk_cache # EmptyManifest
  /\ config.ok

\* C10: the persisted cache changes only in the step that ends the parallel
\* phase, when every batch is done, and is written once at most; until then
\* it is what it was when the run started, also when the run is killed or
\* stops on a configuration error.
C10_CacheWrittenOnceAtEnd ==
  /\ [](pc = "format" => disk_cache = run_start.cache /\ cache_writes.count = 0)
  /\ [](cache_writes.count <= 1)
  /\ []((pc = "done" /\ outcome = "config-error") => disk_cache = run_start.cache)
  /\ [][disk_cache' # disk_cache =>
          pc = "format" /\ AllBatchesDone /\ pc' = "done" /\ cache_writes.count = 0]_vars

\* A run wrote a cache that differs from the one it started with, after a
\* batch that succeeded and a batch that failed.
C10_Witness ==
  /\ pc = "done" /\ cache_writes.count = 1 /\ cache_writes.ok
  /\ disk_cache # run_start.cache
  /\ \E n1, n2 \in DOMAIN status : status[n1] = "ok" /\ status[n2] = "failed"

\* The paths the walk matched to formatter n that the cache the run loaded
\* does not hold with the mtime of the walk.
StalePaths(n) ==
  IF n \in DOMAIN match_set
  THEN {p \in DOMAIN match_set[n] : ~IsClean(FilterCache, n, p, match_set[n][p])}
  ELSE {}

\* The path lists formatter n was started with in this run.
CallsOf(n) == IF n \in DOMAIN fmt_calls THEN fmt_calls[n] ELSE <<>>

\* C11: in a run, a formatter is started once at most, only when it has a
\* stale path and then with all of its stale paths and no other; at the
\* summary every formatter with a stale path was started once, and a
\* formatter without one was not started.
C11_Batching ==
  Walked =>
    \A n \in FormatterNames :
      /\ Len(CallsOf(n)) <= 1
      /\ CallsOf(n) # <<>> => StalePaths(n) # {} /\ CallsOf(n)[1] = StalePaths(n)
      /\ StalePaths(n) = {} => CallsOf(n) = <<>>
      /\ (Summarised /\ StalePaths(n) # {}) => CallsOf(n) = <<StalePaths(n)>>

\* At the summary one formatter was started on a batch that leaves out a
\* clean file it matches, or ran next to a formatter whose batch was empty
\* and that was skipped.
C11_Witness ==
  /\ Summarised
  /\ \E n \in DOMAIN fmt_calls :
       /\ fmt_calls[n] = <<StalePaths(n)>>
       /\ \/ StalePaths(n) # DOMAIN match_set[n]
          \/ \E k \in DOMAIN matches :
               k # n /\ status[k] = "skipped" /\ k \notin DOMAIN fmt_calls

\* Some batch of the run failed.
SomeBatchFailed == \E n \in DOMAIN status : status[n] = "failed"

\* C12: a run in which a batch failed gets to its summary only after every
\* other formatter with a batch was started on it, has the results of every
\* batch in the merged cache, writes the cache once, and returns what the
\* count of re-formatted files and fail_on_change give, never an error for
\* the failed batch.
C12_FailureIsolation ==
  (Summarised /\ SomeBatchFailed) =>
    /\ \A n \in DOMAIN matches :
         /\ BatchPaths(n) # {} =>
              status[n] \in {"ok", "failed"} /\ CallsOf(n) = <<BatchPaths(n)>>
         /\ n \in DOMAIN new_matches /\ n \in DOMAIN cache
         /\ \A p \in BatchPaths(n) :
              /\ p \in DOMAIN new_matches[n] /\ p \in DOMAIN cache[n].paths
              /\ cache[n].paths[p] = new_matches[n][p]
    /\ cache_writes.count = 1
    /\ cache_writes.ok => disk_cache = cache
    /\ outcome \in {"ok", "fail-on-change"}
    /\ outcome = "fail-on-change" <=> (args.fail_on_change /\ summary.reformatted > 0)

\* One batch failed; the other formatter rewrote a file and the new mtime of
\* the file is in the cache on disk.
C12_Witness ==
  /\ Summarised /\ cache_writes.ok
  /\ \E n1, n2 \in DOMAIN status : \E p \in RootFiles :
       /\ status[n1] = "failed" /\ status[n2] = "ok"
       /\ <<n2, p>> \in written
       /\ disk_cache[n2].paths[p] = fs[p]
       /\ fs[p] # run_start.fs[p]

\* C13: the re-formatted count of a summary is the number of matched files
\* whose mtime on disk at the end of the run differs from the mtime they had
\* during the walk: every file that changed is counted, once, and no other.
C13_ReformattedCountsChangedFiles ==
  Summarised =>
    summary.reformatted =
      Cardinality({f \in FilesOf(match_set) : fs[f] # run_start.fs[f]})

\* C14: the matched count of a summary is the number of (formatter, file)
\* pairs of the MatchSet, and the traversed count is the number of files
\* under the resolved target paths, whatever the list of target paths is.
C14_CountsOfWalk ==
  Summarised =>
    /\ summary.matched = CountPairs(match_set)
    /\ summary.traversed = Cardinality(WalkedFiles)

\* The batch of formatter n returns in this step, with the given status.
Returns(n, how) ==
  /\ n \in DOMAIN status /\ status[n] = "running"
  /\ n \in DOMAIN status' /\ status'[n] = how

\* C15: a batch that succeeds returns, for every path of the batch, the
\* mtime the file has on disk when the formatter returns, rewritten or not;
\* a batch that fails returns, for every path of the batch, the mtime of the
\* walk; at the summary these are the mtimes of the merged cache, and of the
\* cache on disk when the write worked.
C15_MergedMtimes ==
  /\ [][\A n \in FormatterNames :
          Returns(n, "ok") =>
            new_matches'[n] = [p \in DOMAIN matches[n] |-> fs[p]]]_vars
  /\ [][\A n \in FormatterNames :
          Returns(n, "failed") =>
            new_matches'[n] = [p \in DOMAIN matches[n] |-> match_set[n][p]]]_vars
  /\ [](Summarised =>
          \A n \in DOMAIN status :
            status[n] \in {"ok", "failed"} =>
              \A p \in DOMAIN matches[n] :
                /\ cache[n].paths[p] = new_matches[n][p]
                /\ cache_writes.ok => disk_cache[n].paths[p] = new_matches[n][p])

\* The cache on disk holds the new mtime of a file that a successful batch
\* rewrote, and the mtime of the walk for a file that a failed batch rewrote.
C15_Witness ==
  /\ Summarised /\ cache_writes.ok
  /\ \E n1, n2 \in DOMAIN status : \E p, q \in RootFiles :
       /\ status[n1] = "ok" /\ <<n1, p>> \in written
       /\ disk_cache[n1].paths[p] = fs[p] /\ fs[p] # run_start.fs[p]
       /\ status[n2] = "failed" /\ <<n2, q>> \in written
       /\ disk_cache[n2].paths[q] = run_start.fs[q] /\ fs[q] # run_start.fs[q]

\* The cache on disk at the start of the run holds an entry for (n, p), the
\* definition of formatter n is the one the entry was written with, and the
\* run did not put p in the batch of n.
UnscheduledEntry(n, p) ==
  /\ n \in DOMAIN formatters /\ DefinitionUnchanged(n)
  /\ p \in DOMAIN run_start.cache[n].paths
  /\ ~(n \in DOMAIN matches /\ p \in DOMAIN matches[n])

\* The cache on disk holds (n, p) with the mtime it had at the start of the
\* run, and a run with the same definitions finds it clean at that mtime.
EntryKept(n, p) ==
  /\ n \in DOMAIN disk_cache /\ p \in DOMAIN disk_cache[n].paths
  /\ disk_cache[n].paths[p] = run_start.cache[n].paths[p]
  /\ IsClean(update_formatters(disk_cache, formatters), n, p,
             run_start.cache[n].paths[p])

CleanRun == Summarised /\ ~SomeBatchFailed

\* The mtime the merged cache holds for every scheduled (formatter, path) is
\* the mtime the file has on disk, and so for the cache on disk when the
\* write worked.
ScheduledAgreeWithDisk ==
  \A n \in DOMAIN matches : \A p \in DOMAIN matches[n] :
    /\ cache[n].paths[p] = fs[p]
    /\ cache_writes.ok => disk_cache[n].paths[p] = fs[p]

\* No file is in the batch of two formatters.
DisjointBatches ==
  \A n1, n2 \in DOMAIN matches :
    n1 # n2 => DOMAIN matches[n1] \cap DOMAIN matches[n2] = {}

\* C17 as stated: at the end of a run in which every batch succeeded, the
\* cache agrees with the disk on every scheduled (formatter, path), however
\* the batches were interleaved.
C17_CacheAgreesWithDisk == CleanRun => ScheduledAgreeWithDisk

\* C17, amended: the same when no file is in the batch of two formatters.
C17_CacheAgreesWithDiskDisjoint ==
  (CleanRun /\ DisjointBatches) => ScheduledAgreeWithDisk

\* Two formatters with a file each both rewrote their file and succeeded.
C17_Witness ==
  /\ CleanRun /\ DisjointBatches /\ cache_writes.ok
  /\ \E n1, n2 \in DOMAIN matches : \E p, q \in RootFiles :
       /\ n1 # n2 /\ <<n1, p>> \in written /\ <<n2, q>> \in written
       /\ fs[p] # run_start.fs[p] /\ fs[q] # run_start.fs[q]

\* What the batch of formatter n returns, from what the formatter did alone:
\* the mtimes of the walk, raised for the files it rewrote when it succeeded.
ResultOf(n) ==
  IF status[n] = "ok"
  THEN [p \in DOMAIN matches[n] |->
          IF <<n, p>> \in written THEN matches[n][p] + 1 ELSE matches[n][p]]
  ELSE matches[n]

\* The result set, the caches, the counts and the outcome as functions of
\* the inputs of the run and of what each formatter did, without any
\* reference to the order of the steps of the parallel phase.
ResultsByFormatter == [n \in DOMAIN matches |-> ResultOf(n)]
RewrittenAndSeen == {np \in written : status[np[1]] = "ok"}
ScheduleFree ==
  /\ new_matches = ResultsByFormatter
  /\ cache = add_results(FilterCache, ResultsByFormatter)
  /\ disk_cache = IF cache_writes.ok THEN cache ELSE run_start.cache
  /\ summary = [traversed |-> CountTraversed(paths),
                matched |-> CountMatched(paths, formatters),
                filtered |-> CountPairs(matches),
                reformatted |-> Cardinality(RewrittenAndSeen)]
  /\ outcome = Outcome(Cardinality(RewrittenAndSeen), args.fail_on_change)

\* C18: when no file is in the batch of two formatters, the result set, the
\* merged and the persisted cache, the four counts and the outcome of a run
\* depend on what each formatter did and not on the order in which the
\* batches started, wrote and returned; during the parallel phase the
\* manifest is the one the filter used, and in a run that goes on it
\* changes only in the step that follows the return of the last batch.
C18_ScheduleIndependence ==
  /\ []((Summarised /\ DisjointBatches) => ScheduleFree)
  /\ [](pc = "format" => cache = FilterCache /\ disk_cache = run_start.cache)
  /\ [][(pc = "format" /\ pc' # "idle" /\ cache' # cache) =>
          (AllBatchesDone /\ pc' = "done")]_vars

\* Two formatters had a file each: one rewrote its file and succeeded, the
\* other failed, and the run ended with the fail-on-change error.
C18_Witness ==
  /\ Summarised /\ DisjointBatches
  /\ outcome = "fail-on-change"
  /\ \E n1, n2 \in DOMAIN matches :
       /\ DOMAIN matches[n1] # {} /\ DOMAIN matches[n2] # {}
       /\ status[n1] = "ok" /\ status[n2] = "failed"
       /\ \E p \in DOMAIN matches[n1] : <<n1, p>> \in written

\* The parallel phase of the run is over.
Collected == Walked /\ AllBatchesDone

\* C19: the filtered matches name configured formatters only and hold paths
\* of the MatchSet only, under the formatter the walk matched them to; the
\* results never name another formatter or path than the filtered matches,
\* and once every batch is done, skipped, succeeded or failed, they have the
\* same formatter names and per formatter the same paths.
C19_LookupsNeverFail ==
  Walked =>
    /\ DOMAIN matches \subseteq DOMAIN formatters
    /\ \A n \in DOMAIN matches :
         n \in DOMAIN match_set /\ DOMAIN matches[n] \subseteq DOMAIN match_set[n]
    /\ DOMAIN new_matches \subseteq DOMAIN matches
    /\ \A n \in DOMAIN new_matches : DOMAIN new_matches[n] = DOMAIN matches[n]
    /\ Collected => DOMAIN new_matches = DOMAIN matches

\* A summary after a batch that was skipped, all files of its formatter
\* being clean, next to a batch that failed.
C19_Witness ==
  /\ Summarised
  /\ \E n1, n2 \in DOMAIN matches :
       /\ status[n1] = "skipped" /\ status[n2] = "failed"
       /\ DOMAIN new_matches[n1] = {} /\ DOMAIN new_matches[n2] # {}
       /\ DOMAIN match_set[n1] # {}

\* C20: in every summary the re-formatted count is at most the count left
\* after the cache filter, which is at most the matched count, which is at
\* most the traversed count times the number of formatters built from the
\* configuration, itself at most the number of configured formatters.
C20_CountOrdering ==
  Summarised =>
    /\ 0 <= summary.reformatted
    /\ summary.reformatted <= summary.filtered
    /\ summary.filtered <= summary.matched
    /\ summary.matched <= summary.traversed * Cardinality(DOMAIN formatters)
    /\ Cardinality(DOMAIN formatters) <= Cardinality(DOMAIN config.formatter)

\* A summary with fewer files re-formatted than left after the cache filter
\* and fewer left than matched, one file being reached from two targets.
C20_Witness ==
  /\ Summarised
  /\ 0 < summary.reformatted
  /\ summary.reformatted < summary.filtered
  /\ summary.filtered < summary.matched
  /\ summary.traversed > Cardinality(WalkedFiles)

====
